---- MODULE Spec2Model ----
(***************************************************************************)
(* python-cabarchive: the CabFile object of cabarchive/file.py (attribute  *)
(* bitmap, MS-DOS packed date and time, the filename property) and the     *)
(* MSCAB block checksum exercised by test.py.                              *)
(***************************************************************************)
EXTENDS Integers, Sequences, FiniteSets

VARIABLES cff,    \* the CabFile object the caller holds
          val,    \* the 16-bit word read from a file record (the parse input)
          call,   \* the last call made on cff: op, args, ret, exc, fresh
          csum    \* the checksum computation: buf, rot, i, acc, pc

vars == <<cff, val, call, csum>>

(***************************************************************************)
(* Python values: None, str (code points), bytes, int.                     *)
(***************************************************************************)
None == [t |-> "None", s |-> <<>>, n |-> 0]
Str(x) == [t |-> "str", s |-> x, n |-> 0]
Bytes(x) == [t |-> "bytes", s |-> x, n |-> 0]
Num(k) == [t |-> "int", s |-> <<>>, n |-> k]

\* Python truthiness of None, str, bytes, int: `not text` is ~Truthy(text)
Truthy(x) == CASE x.t = "None" -> FALSE
               [] x.t = "int" -> x.n # 0
               [] OTHER -> x.s # <<>>

(***************************************************************************)
(* Bit operations on Python's unbounded integers (two's complement).       *)
(***************************************************************************)
\* one 4-bit digit at a time, from the tables of the three operations on digits
RECURSIVE Bit4(_, _, _, _)
Bit4(op, x, y, k) ==
    IF k = 0 THEN 0
    ELSE (CASE op = "and" -> (x % 2) * (y % 2)
            [] op = "or" -> IF x % 2 = 1 \/ y % 2 = 1 THEN 1 ELSE 0
            [] OTHER -> (x + y) % 2)
         + 2 * Bit4(op, x \div 2, y \div 2, k - 1)

And4 == [x \in 0 .. 15 |-> [y \in 0 .. 15 |-> Bit4("and", x, y, 4)]]
Or4 == [x \in 0 .. 15 |-> [y \in 0 .. 15 |-> Bit4("or", x, y, 4)]]
Xor4 == [x \in 0 .. 15 |-> [y \in 0 .. 15 |-> Bit4("xor", x, y, 4)]]

\* a & m for a mask m >= 0 (a may be negative: floor division and a
\* non-negative remainder give the two's complement digits)
RECURSIVE BitAnd(_, _)
BitAnd(a, m) == IF m = 0 THEN 0
                ELSE And4[a % 16][m % 16] + 16 * BitAnd(a \div 16, m \div 16)

\* a | b and a ^ b for a, b >= 0
RECURSIVE BitOr(_, _)
BitOr(a, b) == IF a = 0 THEN b
               ELSE IF b = 0 THEN a
               ELSE Or4[a % 16][b % 16] + 16 * BitOr(a \div 16, b \div 16)

RECURSIVE BitXor(_, _)
BitXor(a, b) == IF a = 0 THEN b
                ELSE IF b = 0 THEN a
                ELSE Xor4[a % 16][b % 16] + 16 * BitXor(a \div 16, b \div 16)

RECURSIVE Pow2(_)
Pow2(k) == IF k = 0 THEN 1 ELSE 2 * Pow2(k - 1)

Shl(a, k) == a * Pow2(k)
Shr(a, k) == a \div Pow2(k)

(***************************************************************************)
(* Bounds of the model.                                                    *)
(***************************************************************************)
MaxNameLen == 2

\* 'a', DEL (the last ASCII code point), U+0080 (the first non-ASCII one)
CodePoints == {97, 127, 128}

RECURSIVE SeqsUpTo(_, _)
SeqsUpTo(S, k) == IF k = 0 THEN {<<>>}
                  ELSE LET shorter == SeqsUpTo(S, k - 1)
                       IN shorter \cup {Append(q, c) : q \in shorter, c \in S}

Names == SeqsUpTo(CodePoints, MaxNameLen)

\* "$C": the first bytes of the content test.py passes
Contents == {<<>>, <<36, 67>>}

\* what a caller passes as file name or content
NameArgs == {None} \cup {Str(x) : x \in Names} \cup {Bytes(x) : x \in Contents}
BufArgs == {None, Str(<<97, 128>>), Bytes(<<36, 67>>)}

Words == 0 .. 65535

\* a 16-bit field of the file record being parsed
Field(name, word) == [field |-> name, word |-> word]

\* attribute words of the state-machine specification: the defined bits, the
\* undefined ones, and words above one byte
AttrWords == {0, 32, 160, 24, 192, 65535}

(***************************************************************************)
(* cabarchive/file.py                                                      *)
(***************************************************************************)
\* ord(c) for c drawn from a bytes object (an int) raises TypeError
OrdRaises(text) == text.t = "bytes"

\* _is_ascii raises: text is truthy and all() reaches ord() of an int
IsAsciiRaises(text) == Truthy(text) /\ OrdRaises(text)

_is_ascii_MutLt127(text) == IF ~Truthy(text) THEN FALSE
                            ELSE \A i \in 1 .. Len(text.s) : text.s[i] < 127

_is_ascii(text) == IF ~Truthy(text) THEN FALSE
                   ELSE \A i \in 1 .. Len(text.s) : text.s[i] < 128

filename_setter_MutNoRecompute(self, filename) == [self EXCEPT !.filename = filename]

\* the filename property setter (on a call that does not raise)
filename_setter(self, filename) == [self EXCEPT !.is_name_utf8 = ~_is_ascii(filename),
                                                !.filename = filename]

\* positional binding of CabFile(buf=None, filename=None, mtime=None)
Positional(args, i) == IF i <= Len(args) THEN args[i] ELSE None

\* datetime values
Date(y, m, d) == [year |-> y, month |-> m, day |-> d]
Time(h, m, s, us) == [hour |-> h, minute |-> m, second |-> s, microsecond |-> us]
NoMTime == [set |-> FALSE, date |-> Date(1, 1, 1), time |-> Time(0, 0, 0, 0)]
MTime(d, t) == [set |-> TRUE, date |-> d, time |-> t]

\* the object __init__ leaves (on a call that does not raise); now is what
\* datetime.date.today() and datetime.datetime.now() return
__init__(args, mtime, now) ==
    LET buf == Positional(args, 1)
        filename == Positional(args, 2)
        blank == [filename |-> None, buf |-> None,
                  date |-> now.date, time |-> now.time,
                  is_readonly |-> FALSE, is_hidden |-> FALSE, is_system |-> FALSE,
                  is_arch |-> FALSE, is_exec |-> FALSE, is_name_utf8 |-> FALSE]
        named == filename_setter(blank, filename)
    IN [named EXCEPT !.buf = buf,
                     !.date = IF mtime.set THEN mtime.date ELSE now.date,
                     !.time = IF mtime.set THEN mtime.time ELSE now.time,
                     !.is_readonly = FALSE,
                     !.is_hidden = FALSE,
                     !.is_system = FALSE,
                     !.is_arch = TRUE,
                     !.is_exec = FALSE]

__len__(self) == IF ~Truthy(self.buf) THEN 0 ELSE Len(self.buf.s)

_attr_encode(self) ==
    (IF self.is_readonly THEN \h01 ELSE 0)
    + (IF self.is_hidden THEN \h02 ELSE 0)
    + (IF self.is_system THEN \h04 ELSE 0)
    + (IF self.is_arch THEN \h20 ELSE 0)
    + (IF self.is_exec THEN \h40 ELSE 0)
    + (IF self.is_name_utf8 THEN \h80 ELSE 0)

_attr_decode_MutExec(self, attr) ==
    [self EXCEPT !.is_readonly = BitAnd(attr, \h01) # 0,
                 !.is_hidden = BitAnd(attr, \h02) # 0,
                 !.is_system = BitAnd(attr, \h04) # 0,
                 !.is_arch = BitAnd(attr, \h20) # 0,
                 !.is_exec = BitAnd(attr, \h20) # 0,
                 !.is_name_utf8 = BitAnd(attr, \h80) # 0]

_attr_decode_MutWide(self, attr) ==
    [self EXCEPT !.is_readonly = BitAnd(attr, \h01) # 0,
                 !.is_hidden = BitAnd(attr, \h02) # 0,
                 !.is_system = BitAnd(attr, \h04) # 0,
                 !.is_arch = BitAnd(attr, \h30) # 0,
                 !.is_exec = BitAnd(attr, \h40) # 0,
                 !.is_name_utf8 = BitAnd(attr, \h80) # 0]

_attr_decode(self, attr) ==
    [self EXCEPT !.is_readonly = BitAnd(attr, \h01) # 0,
                 !.is_hidden = BitAnd(attr, \h02) # 0,
                 !.is_system = BitAnd(attr, \h04) # 0,
                 !.is_arch = BitAnd(attr, \h20) # 0,
                 !.is_exec = BitAnd(attr, \h40) # 0,
                 !.is_name_utf8 = BitAnd(attr, \h80) # 0]

\* datetime.date(year, month, day) accepts (else ValueError)
IsLeap(y) == y % 4 = 0 /\ (y % 100 # 0 \/ y % 400 = 0)

DaysInMonth(y, m) == IF m = 2 THEN (IF IsLeap(y) THEN 29 ELSE 28)
                     ELSE IF m \in {4, 6, 9, 11} THEN 30 ELSE 31

DateAccepts(y, m, d) == /\ 1 <= y /\ y <= 9999
                        /\ 1 <= m /\ m <= 12
                        /\ 1 <= d /\ d <= DaysInMonth(y, m)

\* datetime.time(hour, minute, second) accepts (else ValueError)
TimeAccepts(h, m, s) == /\ 0 <= h /\ h <= 23
                        /\ 0 <= m /\ m <= 59
                        /\ 0 <= s /\ s <= 59

\* the three arguments _date_decode hands to datetime.date
DateFields_MutDayMask(v) == Date(1980 + Shr(BitAnd(v, \hFE00), 9),
                                 Shr(BitAnd(v, \h01E0), 5),
                                 BitAnd(v, \h000F))

DateFields(v) == Date(1980 + Shr(BitAnd(v, \hFE00), 9),
                      Shr(BitAnd(v, \h01E0), 5),
                      BitAnd(v, \h001F))

\* the three arguments _time_decode hands to datetime.time
TimeFields_MutMinuteMask(v) == Time(Shr(BitAnd(v, \hF800), 11),
                                    Shr(BitAnd(v, \h03E0), 5),
                                    BitAnd(v, \h001F) * 2, 0)

TimeFields(v) == Time(Shr(BitAnd(v, \hF800), 11),
                      Shr(BitAnd(v, \h07E0), 5),
                      BitAnd(v, \h001F) * 2, 0)

DateDecodeRaises(v) == LET f == DateFields(v) IN ~DateAccepts(f.year, f.month, f.day)
TimeDecodeRaises(v) == LET f == TimeFields(v) IN ~TimeAccepts(f.hour, f.minute, f.second)

_date_decode(self, v) == [self EXCEPT !.date = DateFields(v)]
_time_decode(self, v) == [self EXCEPT !.time = TimeFields(v)]

_date_encode_MutShift(self) ==
    Shl(self.date.year - 1980, 9) + Shl(self.date.month, 4) + self.date.day

_date_encode(self) ==
    Shl(self.date.year - 1980, 9) + Shl(self.date.month, 5) + self.date.day

\* int(second / 2) truncates the float quotient of a second in 0 .. 59
_time_encode(self) ==
    Shl(self.time.hour, 11) + Shl(self.time.minute, 5) + (self.time.second \div 2)

(***************************************************************************)
(* Calls on the object.                                                    *)
(***************************************************************************)
CallRec(op, args, ret, exc, fresh) ==
    [op |-> op, args |-> args, ret |-> ret, exc |-> exc, fresh |-> fresh]

\* the ints a caller passes to a decoder: the word of the matching field of
\* the record being parsed, or what the matching encoder has just returned
DecodeArgs(field, encoder) ==
    (IF val.field = field THEN {val.word} ELSE {})
    \cup (IF call.op = encoder THEN {call.ret.n} ELSE {})

\* cff = CabFile(*args, mtime=mtime)
Construct(args, mtime, now) ==
    /\ IF IsAsciiRaises(Positional(args, 2))
       THEN /\ cff' = cff
            /\ call' = CallRec("__init__", args, None, "TypeError", call.fresh)
       ELSE /\ cff' = __init__(args, mtime, now)
            /\ call' = CallRec("__init__", args, None, "", TRUE)
    /\ UNCHANGED <<val, csum>>

\* cff.filename = name
SetFilename(name) ==
    /\ IF IsAsciiRaises(name)
       THEN /\ cff' = cff
            /\ call' = CallRec("filename", <<name>>, None, "TypeError", call.fresh)
       ELSE /\ cff' = filename_setter(cff, name)
            /\ call' = CallRec("filename", <<name>>, None, "", call.fresh)
    /\ UNCHANGED <<val, csum>>

AttrDecode(a) ==
    /\ cff' = _attr_decode(cff, a)
    /\ call' = CallRec("_attr_decode", <<Num(a)>>, None, "", FALSE)
    /\ UNCHANGED <<val, csum>>

AttrEncode ==
    /\ call' = CallRec("_attr_encode", <<>>, Num(_attr_encode(cff)), "", call.fresh)
    /\ UNCHANGED <<cff, val, csum>>

LenCall ==
    /\ call' = CallRec("__len__", <<>>, Num(__len__(cff)), "", call.fresh)
    /\ UNCHANGED <<cff, val, csum>>

DateDecode(a) ==
    /\ IF DateDecodeRaises(a)
       THEN /\ cff' = cff
            /\ call' = CallRec("_date_decode", <<Num(a)>>, None, "ValueError", call.fresh)
       ELSE /\ cff' = _date_decode(cff, a)
            /\ call' = CallRec("_date_decode", <<Num(a)>>, None, "", call.fresh)
    /\ UNCHANGED <<val, csum>>

TimeDecode(a) ==
    /\ IF TimeDecodeRaises(a)
       THEN /\ cff' = cff
            /\ call' = CallRec("_time_decode", <<Num(a)>>, None, "ValueError", call.fresh)
       ELSE /\ cff' = _time_decode(cff, a)
            /\ call' = CallRec("_time_decode", <<Num(a)>>, None, "", call.fresh)
    /\ UNCHANGED <<val, csum>>

DateEncode ==
    /\ call' = CallRec("_date_encode", <<>>, Num(_date_encode(cff)), "", call.fresh)
    /\ UNCHANGED <<cff, val, csum>>

TimeEncode ==
    /\ call' = CallRec("_time_encode", <<>>, Num(_time_encode(cff)), "", call.fresh)
    /\ UNCHANGED <<cff, val, csum>>

(***************************************************************************)
(* The MSCAB block checksum (_checksum_compute of cabarchive/archive.py).  *)
(***************************************************************************)
\* A 32-bit word is held as its two 16-bit halves.
W32(hi, lo) == [hi |-> hi, lo |-> lo]

Xor32(x, y) == W32(BitXor(x.hi, y.hi), BitXor(x.lo, y.lo))

\* rotate left by k bits, k in 0 .. 16
rol32(x, k) == W32((Shl(x.hi, k) % 65536) + Shr(x.lo, 16 - k),
                   (Shl(x.lo, k) % 65536) + Shr(x.hi, 16 - k))

\* w = b0 ^ (b1 << 8) ^ (b2 << 16) ^ (b3 << 24) of the g-th 4-byte group (g from 0)
GroupWord_MutBigEndian(b, g) ==
    W32(BitXor(b[4 * g + 2], Shl(b[4 * g + 1], 8)),
        BitXor(b[4 * g + 4], Shl(b[4 * g + 3], 8)))

GroupWord(b, g) ==
    W32(BitXor(b[4 * g + 3], Shl(b[4 * g + 4], 8)),
        BitXor(b[4 * g + 1], Shl(b[4 * g + 2], 8)))

\* the word of the bytes left after g groups (fewer than 4, so below 2^24):
\* byte i shifted left by 8 * (remaining - 1 - i), all OR-ed
RECURSIVE TailBits(_, _, _)
TailBits(b, g, i) ==
    LET remaining == Len(b) - 4 * g
    IN IF i >= remaining THEN 0
       ELSE BitOr(Shl(b[4 * g + i + 1], 8 * (remaining - 1 - i)), TailBits(b, g, i + 1))

TailWord(b, g) == W32(Shr(TailBits(b, g, 0), 16), TailBits(b, g, 0) % 65536)

\* "hello" and "hello123", the vectors of test.py
Hello == <<104, 101, 108, 108, 111>>
Hello123 == <<104, 101, 108, 108, 111, 49, 50, 51>>

MaxDataLen == 5
DataBytes == {1, 128, 255}
CsumInputs == {Hello, Hello123} \cup SeqsUpTo(DataBytes, MaxDataLen)

\* bits the running value is rotated by before a group is folded in: 1 is the
\* stated update rule, 0 leaves the running value as it is
Rotations == {0, 1}

CsumIdle == [buf |-> <<>>, rot |-> 1, i |-> 0, acc |-> W32(0, 0), pc |-> "idle"]

CsumStart(b, r, seed) == [buf |-> b, rot |-> r, i |-> 0, acc |-> seed, pc |-> "groups"]

CsumGroup ==
    /\ csum.pc = "groups"
    /\ Len(csum.buf) - 4 * csum.i >= 4
    /\ csum' = [csum EXCEPT !.acc = Xor32(rol32(csum.acc, csum.rot),
                                          GroupWord(csum.buf, csum.i)),
                            !.i = csum.i + 1]
    /\ UNCHANGED <<cff, val, call>>

CsumTail ==
    /\ csum.pc = "groups"
    /\ Len(csum.buf) - 4 * csum.i < 4
    /\ csum' = [csum EXCEPT !.acc = Xor32(csum.acc, TailWord(csum.buf, csum.i)),
                            !.pc = "done"]
    /\ UNCHANGED <<cff, val, call>>

(***************************************************************************)
(* Specifications.                                                         *)
(***************************************************************************)
\* what datetime.date.today() and datetime.datetime.now() return
Clock == [date |-> Date(2015, 6, 1), time |-> Time(12, 30, 45, 123456)]

\* Spec: the object under construction, filename assignment and the attribute
\* calls
Init ==
    /\ val \in {Field("attributes", w) : w \in AttrWords}
    /\ csum = CsumIdle
    /\ \E a1 \in BufArgs, a2 \in NameArgs :
          /\ ~IsAsciiRaises(a2)
          /\ cff = __init__(<<a1, a2>>, NoMTime, Clock)
          /\ call = CallRec("__init__", <<a1, a2>>, None, "", TRUE)

Next ==
    \/ \E a1 \in BufArgs : Construct(<<a1>>, NoMTime, Clock)
    \/ \E a1 \in BufArgs, a2 \in NameArgs : Construct(<<a1, a2>>, NoMTime, Clock)
    \/ Construct(<<>>, NoMTime, Clock)
    \/ \E name \in NameArgs : SetFilename(name)
    \/ \E a \in DecodeArgs("attributes", "_attr_encode") : AttrDecode(a)
    \/ AttrEncode
    \/ LenCall

Spec == Init /\ [][Next]_vars

\* SpecWord: every 16-bit attribute word against a named file
InitWord ==
    /\ val \in {Field("attributes", w) : w \in Words}
    /\ csum = CsumIdle
    /\ \E name \in {<<233>>} :
          /\ cff = __init__(<<None, Str(name)>>, NoMTime, Clock)
          /\ call = CallRec("__init__", <<None, Str(name)>>, None, "", TRUE)

NextWord ==
    \/ \E a \in DecodeArgs("attributes", "_attr_encode") : AttrDecode(a)
    \/ AttrEncode

SpecWord == InitWord /\ [][NextWord]_vars

\* SpecDateTime: every 16-bit packed date and time against a file constructed
\* with mtime
TestMTime == MTime(Date(1997, 3, 12), Time(11, 13, 52, 0))

MTimes == {TestMTime,
           MTime(Date(1997, 3, 12), Time(11, 15, 14, 0)),
           MTime(Date(1980, 1, 1), Time(0, 0, 0, 0)),
           MTime(Date(2107, 12, 31), Time(23, 59, 59, 999999)),
           MTime(Date(1979, 12, 31), Time(23, 59, 58, 0)),
           MTime(Date(2108, 1, 1), Time(0, 0, 1, 0)),
           MTime(Date(2000, 2, 29), Time(7, 8, 9, 0)),
           MTime(Date(2015, 6, 1), Time(12, 30, 44, 500000))}

\* 0x226C, 0x59BA, 0x59E7: the packed date and times of test.py
SampleWords == {0, \h226C, \h59BA, \h59E7, \hFFFF}

InitDateTime ==
    /\ csum = CsumIdle
    /\ \E mtime \in MTimes :
          /\ val \in {Field(f, w) : f \in {"packed_date", "packed_time"},
                                    w \in (IF mtime = TestMTime THEN Words ELSE SampleWords)}
          /\ cff = __init__(<<None, Str(<<97>>)>>, mtime, Clock)
          /\ call = CallRec("__init__", <<None, Str(<<97>>)>>, None, "", TRUE)

NextDateTime ==
    \/ \E a \in DecodeArgs("packed_date", "_date_encode") : DateDecode(a)
    \/ \E a \in DecodeArgs("packed_time", "_time_encode") : TimeDecode(a)
    \/ DateEncode
    \/ TimeEncode

SpecDateTime == InitDateTime /\ [][NextDateTime]_vars

\* SpecCsum: the checksum of a byte string, group by group
InitCsum ==
    /\ val = Field("attributes", 0)
    /\ cff = __init__(<<>>, NoMTime, Clock)
    /\ call = CallRec("__init__", <<>>, None, "", TRUE)
    /\ \E b \in CsumInputs, r \in Rotations : csum = CsumStart(b, r, W32(0, 0))

NextCsum ==
    \/ CsumGroup
    \/ CsumTail

SpecCsum == InitCsum /\ [][NextCsum]_vars

(***************************************************************************)
(* Properties.                                                             *)
(***************************************************************************)
Flags(f) == <<f.is_readonly, f.is_hidden, f.is_system, f.is_arch, f.is_exec,
              f.is_name_utf8>>

\* a value of 16 bits
IsWord(n) == 0 <= n /\ n <= 65535

\* a string with a code point >= 128
HasNonAscii(x) == x.t = "str" /\ \E i \in 1 .. Len(x.s) : x.s[i] >= 128

\* a non-empty string of code points below 128
IsAsciiName(x) == x.t = "str" /\ x.s # <<>> /\ \A i \in 1 .. Len(x.s) : x.s[i] < 128

\* C1: _attr_encode() followed by _attr_decode() of the returned word leaves
\* all six flags as they were, whatever the six flags are.
C1_AttrRoundTrip ==
    [][(/\ call.op = "_attr_encode"
        /\ call'.op = "_attr_decode"
        /\ call'.args = <<call.ret>>) => Flags(cff') = Flags(cff)]_vars

\* C1 witness: the word decoded is not the record's (0x142) but what
\* _attr_encode returned for a file with hidden and exec set, arch and utf8 clear.
C1_Witness ==
    /\ call.op = "_attr_decode"
    /\ val.word = \h0142
    /\ call.args = <<Num(\h42)>>
    /\ Flags(cff) = <<FALSE, TRUE, FALSE, FALSE, TRUE, FALSE>>

\* C8: for every 16-bit word a, _attr_decode(a) then _attr_encode() returns
\* a & 0xE7, and _attr_decode(a) leaves the flags _attr_decode(a & 0xE7) leaves.
C8_UndefinedBits ==
    [][/\ (/\ call.op = "_attr_decode"
           /\ IsWord(call.args[1].n)
           /\ call'.op = "_attr_encode")
          => call'.ret = Num(BitAnd(call.args[1].n, \hE7))
       /\ (/\ call'.op = "_attr_decode"
           /\ IsWord(call'.args[1].n))
          => Flags(cff') = Flags(_attr_decode(cff, BitAnd(call'.args[1].n, \hE7)))]_vars

\* C8 witness: 0xFFFF was decoded and _attr_encode returned 0xE7.
C8_Witness ==
    /\ call.op = "_attr_encode"
    /\ val.word = \hFFFF
    /\ call.ret = Num(\hE7)

\* C3: is_name_utf8 is true exactly when the current filename contains a code
\* point >= 128, in every state construction, filename assignment and
\* _attr_decode reach.
C3_Utf8Consistent == cff.is_name_utf8 = HasNonAscii(cff.filename)

\* C5: CabFile(name) and CabFile(name, content), as test.py writes them, give
\* a file whose filename is name and whose content is the bytes given (none:
\* length 0).
C5_TestConstruction ==
    (/\ call.op = "__init__"
     /\ Len(call.args) >= 1
     /\ call.args[1].t = "str"
     /\ (Len(call.args) = 2 => call.args[2].t = "bytes"))
    => /\ call.exc = ""
       /\ cff.filename = call.args[1]
       /\ __len__(cff) = (IF Len(call.args) = 2 THEN Len(call.args[2].s) ELSE 0)
       /\ Len(call.args) = 2 => cff.buf = call.args[2]

\* C6: a newly created CabFile has is_arch set and the other four attribute
\* flags clear, and while no attribute word has been decoded into it and its
\* filename is a non-empty ASCII string, _attr_encode() returns 0x20.
C6_NewFileAttr ==
    /\ (call.op = "__init__" /\ call.exc = "")
       => /\ cff.is_arch
          /\ ~cff.is_readonly /\ ~cff.is_hidden /\ ~cff.is_system /\ ~cff.is_exec
    /\ (call.fresh /\ IsAsciiName(cff.filename)) => _attr_encode(cff) = \h20
    /\ (call.fresh /\ IsAsciiName(cff.filename) /\ call.op = "_attr_encode")
       => call.ret = Num(\h20)

\* C6 witness: _attr_encode returned 0x20 for a new file named "a<DEL>".
C6_Witness ==
    /\ call.op = "_attr_encode"
    /\ call.fresh
    /\ cff.filename = Str(<<97, 127>>)
    /\ call.ret = Num(\h20)

\* C9: right after a non-empty string is assigned to filename, is_name_utf8 is
\* true exactly when the string has a code point >= 128, and so is bit 0x80 of
\* what _attr_encode() returns then, whatever was decoded before.
C9_FilenameRecompute ==
    (/\ call.op = "filename"
     /\ call.exc = ""
     /\ call.args[1].t = "str"
     /\ call.args[1].s # <<>>)
    => /\ cff.is_name_utf8 = HasNonAscii(call.args[1])
       /\ (BitAnd(_attr_encode(cff), \h80) # 0) = HasNonAscii(call.args[1])

\* C9 witness: 0xC0 (utf8 and exec) was decoded, then "a" was assigned.
C9_Witness ==
    /\ call.op = "filename"
    /\ call.args = <<Str(<<97>>)>>
    /\ val.word = \hC0
    /\ cff.is_exec
    /\ ~cff.is_name_utf8

\* the fields of a packed date and of a packed time, by position
YearField(w) == w \div 512
MonthField(w) == (w \div 32) % 16
DayField(w) == w % 32
HourField(w) == w \div 2048
MinuteField(w) == (w \div 32) % 64
SecondField(w) == w % 32

\* C2: for a date with year in 1980 .. 2107, _date_decode(_date_encode()) gives
\* the date back; for a time with an even second and no sub-second part,
\* _time_decode(_time_encode()) gives the time back; and for a 16-bit word that
\* _date_decode (_time_decode) accepts, encoding what was decoded returns the word.
C2_DateTimeBijection ==
    [][/\ (/\ call.op = "_date_encode"
           /\ cff.date.year \in 1980 .. 2107
           /\ call'.op = "_date_decode"
           /\ call'.args = <<call.ret>>)
          => (call'.exc = "" /\ cff'.date = cff.date)
       /\ (/\ call.op = "_time_encode"
           /\ cff.time.second % 2 = 0
           /\ cff.time.microsecond = 0
           /\ call'.op = "_time_decode"
           /\ call'.args = <<call.ret>>)
          => (call'.exc = "" /\ cff'.time = cff.time)
       /\ (/\ call.op = "_date_decode"
           /\ call.exc = ""
           /\ IsWord(call.args[1].n)
           /\ call'.op = "_date_encode")
          => call'.ret = call.args[1]
       /\ (/\ call.op = "_time_decode"
           /\ call.exc = ""
           /\ IsWord(call.args[1].n)
           /\ call'.op = "_time_encode")
          => call'.ret = call.args[1]]_vars

\* C2 witness: the word _date_encode returned for 2107-12-31 was decoded again
\* (the record's word is a packed time), and the date is 2107-12-31.
C2_Witness ==
    /\ call.op = "_date_decode"
    /\ call.exc = ""
    /\ val.field = "packed_time"
    /\ cff.date = Date(2107, 12, 31)

\* C7: for a year in 1980 .. 2107 _date_encode() returns the 16-bit value
\* ((year - 1980) << 9) | (month << 5) | day, and _time_encode() returns the
\* 16-bit value (hour << 11) | (minute << 5) | floor(second / 2), each field
\* in its own bits; 1997-03-12 gives 0x226C, 11:13:52 0x59BA, 11:15:14 0x59E7.
C7_PackedLayout ==
    /\ (call.op = "_date_encode" /\ cff.date.year \in 1980 .. 2107)
       => /\ IsWord(call.ret.n)
          /\ call.ret.n = BitOr(BitOr(Shl(cff.date.year - 1980, 9),
                                      Shl(cff.date.month, 5)), cff.date.day)
          /\ YearField(call.ret.n) = cff.date.year - 1980
          /\ MonthField(call.ret.n) = cff.date.month
          /\ DayField(call.ret.n) = cff.date.day
          /\ cff.date = Date(1997, 3, 12) => call.ret.n = \h226C
    /\ call.op = "_time_encode"
       => /\ IsWord(call.ret.n)
          /\ call.ret.n = BitOr(BitOr(Shl(cff.time.hour, 11),
                                      Shl(cff.time.minute, 5)),
                                cff.time.second \div 2)
          /\ HourField(call.ret.n) = cff.time.hour
          /\ MinuteField(call.ret.n) = cff.time.minute
          /\ SecondField(call.ret.n) * 2 \in {cff.time.second, cff.time.second - 1}
          /\ cff.time = Time(11, 13, 52, 0) => call.ret.n = \h59BA
          /\ cff.time = Time(11, 15, 14, 0) => call.ret.n = \h59E7

\* C7 witness: _time_encode returned 0x59E7 for 11:15:14.
C7_Witness ==
    /\ call.op = "_time_encode"
    /\ cff.time = Time(11, 15, 14, 0)
    /\ call.ret = Num(\h59E7)

\* a 16-bit word whose fields are no calendar date / no time of day
NotADate(w) == \/ MonthField(w) \notin 1 .. 12
               \/ DayField(w) = 0
               \/ DayField(w) > DaysInMonth(1980 + YearField(w), MonthField(w))

NotATime(w) == HourField(w) > 23 \/ MinuteField(w) > 59 \/ SecondField(w) > 29

\* C10: _date_decode of a 16-bit word whose fields are no calendar date, and
\* _time_decode of one whose fields are no time of day, raise an error and
\* leave the whole file, date and time included, as it was.
C10_InvalidReported ==
    [][/\ (/\ call'.op = "_date_decode"
           /\ IsWord(call'.args[1].n)
           /\ NotADate(call'.args[1].n))
          => (call'.exc = "ValueError" /\ cff' = cff)
       /\ (/\ call'.op = "_time_decode"
           /\ IsWord(call'.args[1].n)
           /\ NotATime(call'.args[1].n))
          => (call'.exc = "ValueError" /\ cff' = cff)]_vars

\* C10 witness: _time_decode raised on 0x5FBA (minute field 61).
C10_Witness ==
    /\ call.op = "_time_decode"
    /\ call.args = <<Num(\h5FBA)>>
    /\ call.exc = "ValueError"
    /\ cff.time = Time(11, 13, 52, 0)

====
